---- MODULE Spec2Model ----
(***************************************************************************)
(* A model of src/main.py: the URL fetch and JSON extraction               *)
(* (fetch_and_populate_variables_action), the placeholder substitution     *)
(* (generate_prompt_action) and the session bookkeeping of run_ui.         *)
(*                                                                         *)
(* Python strings are TLA+ strings (TLC evaluates Len, SubSeq and \o on    *)
(* them).  Every other Python / JSON value is a tagged record, so that a   *)
(* dictionary entry can hold a string, None, a number, a list or a dict as *)
(* it can in the program.                                                  *)
(***************************************************************************)
EXTENDS Integers, Sequences, FiniteSets, TLC

VARIABLES
    prompt_template,            \* st.session_state.prompt_template
    content_url,                \* st.session_state.content_url
    fetched_variable_values,    \* st.session_state.fetched_variable_values (a dict)
    answer_input_method,        \* st.session_state.answer_input_method
    single_answer,              \* st.session_state.single_answer
    uploaded_csv_answers,       \* st.session_state.uploaded_csv_answers
    last_uploaded_filename,     \* st.session_state.last_uploaded_filename
    uploader,                   \* the file held by the st.file_uploader widget
    response,                   \* what requests.get / response.json() produced in the last fetch
    fetch_prev,                 \* fetched_variable_values on entry to the last fetch
    fetch_ret,                  \* return value of the last fetch ("none" when not called)
    answers_payload,            \* answers_input passed to the last generate_prompt_action
    gen_called,                 \* generate_prompt_action ran in this script run
    final_prompts_generated_data, \* the "generated_prompt" column it built
    non_allowed_vars,           \* the set it reported as not whitelisted
    messages                    \* st.warning / st.info / st.error / st.success calls it made

vars == << prompt_template, content_url, fetched_variable_values,
           answer_input_method, single_answer, uploaded_csv_answers,
           last_uploaded_filename, uploader, response, fetch_prev, fetch_ret,
           answers_payload, gen_called, final_prompts_generated_data,
           non_allowed_vars, messages >>

-----------------------------------------------------------------------------
(* Python values *)

PyNone == [t |-> "none"]
PyS(s) == [t |-> "str", v |-> s]
PyI(n) == [t |-> "int", v |-> n]
PyB(b) == [t |-> "bool", v |-> b]
PyL(q) == [t |-> "list", v |-> q]
PyD(f) == [t |-> "dict", v |-> f]

IsStr(x)  == x.t = "str"
IsList(x) == x.t = "list"
IsDict(x) == x.t = "dict"

\* Python truthiness of a value: bool(x)
truthy(x) ==
    CASE x.t = "none" -> FALSE
      [] x.t = "str"  -> x.v # ""
      [] x.t = "int"  -> x.v # 0
      [] x.t = "bool" -> x.v
      [] x.t = "list" -> x.v # << >>
      [] x.t = "dict" -> DOMAIN x.v # {}

Digit(d) == SubSeq("0123456789", d + 1, d + 1)

RECURSIVE NatToStr(_)
NatToStr(n) == IF n < 10 THEN Digit(n) ELSE NatToStr(n \div 10) \o Digit(n % 10)

\* str(x) for the scalar values; str of a list or a dict is not modelled
py_str(x) ==
    CASE x.t = "str"  -> x.v
      [] x.t = "none" -> "None"
      [] x.t = "bool" -> IF x.v THEN "True" ELSE "False"
      [] x.t = "int"  -> IF x.v < 0 THEN "-" \o NatToStr(0 - x.v) ELSE NatToStr(x.v)

\* dict.get(key, default)
dict_get(d, key, default) == IF key \in DOMAIN d THEN d[key] ELSE default

\* d[key] = value
dict_set(d, key, value) ==
    [k \in DOMAIN d \cup {key} |-> IF k = key THEN value ELSE d[k]]

-----------------------------------------------------------------------------
(* String primitives *)

\* s[i-1:].startswith(p), i counted from 1
StartsAt(s, i, p) ==
    /\ i + Len(p) - 1 <= Len(s)
    /\ (p # "" => SubSeq(s, i, i) = SubSeq(p, 1, 1))
    /\ SubSeq(s, i, i + Len(p) - 1) = p

\* p in s

\* s.find(p, i - 1) + 1: the first index >= i at which p occurs, 0 if none
FindFrom(s, i, p) ==
    LET at == { j \in i..(Len(s) - Len(p) + 1) : StartsAt(s, j, p) }
    IN  IF at = {} THEN 0 ELSE CHOOSE j \in at : \A k \in at : j <= k

RECURSIVE ReplaceFrom(_, _, _, _)
ReplaceFrom(s, i, old, new) ==
    LET j == FindFrom(s, i, old)
    IN  IF j = 0 THEN SubSeq(s, i, Len(s))
        ELSE SubSeq(s, i, j - 1) \o new \o ReplaceFrom(s, j + Len(old), old, new)

\* p in s
Contains(s, p) == FindFrom(s, 1, p) # 0

\* Mutant of str_replace: s.replace(old, new, 1), only the first occurrence.
str_replace_first_only(s, old, new) ==
    LET j == FindFrom(s, 1, old)
    IN  IF j = 0 THEN s
        ELSE SubSeq(s, 1, j - 1) \o new \o SubSeq(s, j + Len(old), Len(s))

\* s.replace(old, new) for a non-empty old: every non-overlapping occurrence,
\* found left to right in s; the inserted text is not searched again
str_replace(s, old, new) == ReplaceFrom(s, 1, old, new)

RECURSIVE JoinFrom(_, _, _)
JoinFrom(sep, q, i) ==
    IF i > Len(q) THEN ""
    ELSE IF i = Len(q) THEN q[i]
    ELSE q[i] \o sep \o JoinFrom(sep, q, i + 1)

\* sep.join(q) for a list of strings
str_join(sep, q) == JoinFrom(sep, q, 1)

-----------------------------------------------------------------------------
(* The whitelist *)

PREDEFINED_VARIABLES ==
    << "task_instruction", "vocabulary_list", "grammar_reference",
       "communication_reference", "guiding_questions", "can_do_statements" >>

ALL_POSSIBLE_VARIABLES == PREDEFINED_VARIABLES \o << "student_answer" >>

Range(q) == { q[i] : i \in DOMAIN q }

\* f"{{{{{var_key}}}}}"
Token(var_key) == "{{" \o var_key \o "}}"

-----------------------------------------------------------------------------
(* re.findall(r"\{\{(.*?)\}\}", prompt_template) *)

\* The end of the shortest match that starts with the "{{" at i: the index k of
\* the first "}}" at or after i + 2 with no newline before it, or 0 when a
\* newline or the end of the text comes first ("." does not match "\n").
CloseFrom(s, k) ==
    LET close == FindFrom(s, k, "}}")
        newline == FindFrom(s, k, "\n")
    IN  IF close = 0 \/ (newline # 0 /\ newline < close) THEN 0 ELSE close

RECURSIVE FindAllFrom(_, _)
FindAllFrom(s, i) ==
    LET open == FindFrom(s, i, "{{")
    IN  IF open = 0 THEN << >>
        ELSE LET k == CloseFrom(s, open + 2)
             IN  IF k # 0
                 THEN << SubSeq(s, open + 2, k - 1) >> \o FindAllFrom(s, k + 2)
                 ELSE FindAllFrom(s, open + 1)

\* the list of captured inner texts, in order, matches not overlapping
re_findall(s) == FindAllFrom(s, 1)

-----------------------------------------------------------------------------
(* fetch_and_populate_variables_action *)

PredefinedSet == Range(PREDEFINED_VARIABLES)

\* Mutant of reset_values: the dictionary is created only when the session has
\* none yet, so the values of an earlier fetch stay.
reset_values_keep_existing(previous) == previous

\* Mutant of reset_values: the mapping is built over ALL_POSSIBLE_VARIABLES, so
\* that it gets a student_answer key.
reset_values_all_possible(previous) ==
    [ var \in Range(ALL_POSSIBLE_VARIABLES) |-> PyS("") ]

\* {var: "" for var in PREDEFINED_VARIABLES}, whatever the session held before
reset_values(previous) == [ var \in PredefinedSet |-> PyS("") ]

\* f"- {s}" / str(item): the text of a scalar value
format_value(x) == py_str(x)

\* ["- " + text for text in q]
RECURSIVE Bulleted(_, _)
Bulleted(q, i) ==
    IF i > Len(q) THEN << >>
    ELSE << "- " \o q[i] >> \o Bulleted(q, i + 1)

\* [stmt.get('statement', '') for stmt in raw
\*      if isinstance(stmt, dict) and stmt.get('statement')], from the i-th on
RECURSIVE Statements(_, _)
Statements(raw, i) ==
    IF i > Len(raw) THEN << >>
    ELSE LET stmt == raw[i]
         IN  (IF IsDict(stmt) /\ truthy(dict_get(stmt.v, "statement", PyNone))
              THEN << format_value(dict_get(stmt.v, "statement", PyS(""))) >>
              ELSE << >>)
             \o Statements(raw, i + 1)

\* The interactions branch: the values of task_instruction_val and
\* can_do_statements_val after it.
extract_interactions(activity_data) ==
    LET interactions == dict_get(activity_data, "interactions", PyL(<< >>))
        none == [task_instruction |-> PyS(""), can_do_statements |-> PyS("")]
    IN  IF truthy(interactions) /\ IsList(interactions) /\ Len(interactions.v) > 0
        THEN LET interaction == interactions.v[1]
             IN  IF IsDict(interaction)
                 THEN LET raw == dict_get(interaction.v, "canDoStatement", PyL(<< >>))
                      IN  [ task_instruction |->
                                dict_get(interaction.v, "instruction", PyS("")),
                            can_do_statements |->
                                IF IsList(raw)
                                THEN PyS(str_join("\n", Bulleted(Statements(raw.v, 1), 1)))
                                ELSE PyS("") ]
                 ELSE none
        ELSE none

\* str(item) for item in vocab_list_from_json if item, from the i-th on
RECURSIVE VocabularyItems(_, _)
VocabularyItems(q, i) ==
    IF i > Len(q) THEN << >>
    ELSE (IF truthy(q[i]) THEN << py_str(q[i]) >> ELSE << >>)
         \o VocabularyItems(q, i + 1)

\* Mutant of reference_step: the first grammar / communication entry wins, a
\* later one does not overwrite a value already taken.
reference_step_first_wins(acc, ref) ==
    IF ~IsDict(ref) THEN acc
    ELSE LET category == dict_get(ref.v, "category", PyNone)
             contents == dict_get(ref.v, "contents", PyNone)
         IN  IF ~IsDict(contents) THEN acc
             ELSE IF IsStr(category) /\ category.v = "vocabulary"
             THEN LET vocab_list_from_json ==
                          dict_get(contents.v, "vocabularyList", PyL(<< >>))
                  IN  IF IsList(vocab_list_from_json)
                      THEN [acc EXCEPT !.vocabulary_items_list =
                               @ \o VocabularyItems(vocab_list_from_json.v, 1)]
                      ELSE acc
             ELSE IF IsStr(category) /\ category.v = "grammar"
             THEN IF acc.grammar_reference # PyS("") THEN acc
                  ELSE [acc EXCEPT !.grammar_reference =
                           dict_get(contents.v, "reference", PyS(""))]
             ELSE IF IsStr(category) /\ category.v = "communication"
             THEN IF acc.communication_reference # PyS("") THEN acc
                  ELSE [acc EXCEPT !.communication_reference =
                           dict_get(contents.v, "reference", PyS(""))]
             ELSE acc

\* One turn of the loop over reference_screens: acc holds vocabulary_items_list,
\* grammar_reference_val and communication_reference_val.
reference_step(acc, ref) ==
    IF ~IsDict(ref) THEN acc
    ELSE LET category == dict_get(ref.v, "category", PyNone)
             contents == dict_get(ref.v, "contents", PyNone)
         IN  IF ~IsDict(contents) THEN acc
             ELSE IF IsStr(category) /\ category.v = "vocabulary"
             THEN LET vocab_list_from_json ==
                          dict_get(contents.v, "vocabularyList", PyL(<< >>))
                  IN  IF IsList(vocab_list_from_json)
                      THEN [acc EXCEPT !.vocabulary_items_list =
                               @ \o VocabularyItems(vocab_list_from_json.v, 1)]
                      ELSE acc
             ELSE IF IsStr(category) /\ category.v = "grammar"
             THEN [acc EXCEPT !.grammar_reference =
                      dict_get(contents.v, "reference", PyS(""))]
             ELSE IF IsStr(category) /\ category.v = "communication"
             THEN [acc EXCEPT !.communication_reference =
                      dict_get(contents.v, "reference", PyS(""))]
             ELSE acc

RECURSIVE ReferenceLoop(_, _, _)
ReferenceLoop(acc, refs, i) ==
    IF i > Len(refs) THEN acc
    ELSE ReferenceLoop(reference_step(acc, refs[i]), refs, i + 1)

\* The referenceScreens branch: vocabulary_list_str, grammar_reference_val and
\* communication_reference_val after it.
extract_reference_screens(activity_data) ==
    LET reference_screens == dict_get(activity_data, "referenceScreens", PyL(<< >>))
        start == [ vocabulary_items_list |-> << >>,
                   grammar_reference |-> PyS(""),
                   communication_reference |-> PyS("") ]
        acc == IF IsList(reference_screens)
               THEN ReferenceLoop(start, reference_screens.v, 1)
               ELSE start
    IN  [ vocabulary_list |->
              IF acc.vocabulary_items_list # << >>
              THEN PyS(str_join(", ", acc.vocabulary_items_list))
              ELSE PyS(""),
          grammar_reference |-> acc.grammar_reference,
          communication_reference |-> acc.communication_reference ]

\* the questions of one screen's contents list, from the i-th item on
RECURSIVE ItemQuestions(_, _)
ItemQuestions(items, i) ==
    IF i > Len(items) THEN << >>
    ELSE LET item == items[i]
         IN  (IF IsDict(item) /\ truthy(dict_get(item.v, "secondaryContent", PyNone))
              THEN << py_str(dict_get(item.v, "secondaryContent", PyNone)) >>
              ELSE << >>)
             \o ItemQuestions(items, i + 1)

\* guiding_questions_list_raw, from the i-th screen on
RECURSIVE ScreenQuestions(_, _)
ScreenQuestions(screens, i) ==
    IF i > Len(screens) THEN << >>
    ELSE LET screen == screens[i]
             secondary_content_items ==
                 IF IsDict(screen)
                 THEN dict_get(screen.v, "contents", PyL(<< >>))
                 ELSE PyNone
         IN  (IF IsList(secondary_content_items)
              THEN ItemQuestions(secondary_content_items.v, 1)
              ELSE << >>)
             \o ScreenQuestions(screens, i + 1)

\* The secondaryScreens branch: guiding_questions_val after it.
extract_secondary_screens(activity_data) ==
    LET secondary_screens == dict_get(activity_data, "secondaryScreens", PyL(<< >>))
        raw == IF IsList(secondary_screens)
               THEN ScreenQuestions(secondary_screens.v, 1)
               ELSE << >>
    IN  [ guiding_questions |->
              IF raw # << >> THEN PyS(str_join("\n", Bulleted(raw, 1))) ELSE PyS("") ]

\* The six assignments that populate the session dictionary from the locals.
populate(values, activity_data) ==
    LET a == extract_interactions(activity_data)
        r == extract_reference_screens(activity_data)
        g == extract_secondary_screens(activity_data)
    IN  [ var \in DOMAIN values \cup PredefinedSet |->
            CASE var = "task_instruction"        -> a.task_instruction
              [] var = "vocabulary_list"         -> r.vocabulary_list
              [] var = "grammar_reference"       -> r.grammar_reference
              [] var = "communication_reference" -> r.communication_reference
              [] var = "guiding_questions"       -> g.guiding_questions
              [] var = "can_do_statements"       -> a.can_do_statements
              [] OTHER -> values[var] ]

\* The loop after the except clauses: a missing key or a None becomes "".
normalize_after_failure(values) ==
    [ var \in DOMAIN values \cup PredefinedSet |->
        IF var \in PredefinedSet /\ (var \notin DOMAIN values \/ values[var].t = "none")
        THEN PyS("")
        ELSE values[var] ]

\* The outcomes of requests.get, raise_for_status and response.json()
IsException(resp) ==
    \/ resp.kind \in {"none", "transport_error", "http_error", "bad_json"}
    \/ resp.kind = "json" /\ ~IsDict(resp.doc)   \* activity_data.get raises AttributeError

\* the call reaches "return True"
fetch_succeeds(url, resp) == url # "" /\ ~IsException(resp)

\* st.session_state.fetched_variable_values when the call returns
fetch_values(previous, url, resp) ==
    IF url = "" THEN reset_values(previous)
    ELSE IF fetch_succeeds(url, resp)
         THEN populate(reset_values(previous), resp.doc.v)
         ELSE normalize_after_failure(reset_values(previous))

\* The call fetch_and_populate_variables_action(content_url), with resp what the
\* network and the JSON parser give.
fetch_and_populate_variables_action(url, resp) ==
    /\ fetch_prev' = fetched_variable_values
    /\ response' = resp
    /\ fetched_variable_values' = fetch_values(fetched_variable_values, url, resp)
    /\ fetch_ret' = IF fetch_succeeds(url, resp) THEN "True" ELSE "False"

-----------------------------------------------------------------------------
(* generate_prompt_action *)

TEXT_BOX == "Text Box (for a single answer)"
UPLOAD_CSV == "Upload CSV (for multiple answers)"

\* answer_options in run_ui
answer_options == << TEXT_BOX, UPLOAD_CSV >>

\* {key: variable_values_from_fetch.get(key, "") for key in PREDEFINED_VARIABLES}
all_vars_for_template(variable_values_from_fetch) ==
    [ key \in Range(PREDEFINED_VARIABLES) |->
        dict_get(variable_values_from_fetch, key, PyS("")) ]

\* The order in which .items() yields the keys of all_vars_for_template and of
\* its per-row copy: the comprehension's order, then "student_answer".
items_order == PREDEFINED_VARIABLES \o << "student_answer" >>

\* template_vars_in_use
template_vars_in_use(template) == Range(re_findall(template))

\* template_vars_in_use - allowed_vars_set
non_allowed(template) ==
    template_vars_in_use(template) \ Range(ALL_POSSIBLE_VARIABLES)

\* the replacement loop, from the i-th item on
RECURSIVE FillFrom(_, _, _)
FillFrom(text, row_vars, i) ==
    IF i > Len(items_order) THEN text
    ELSE LET var_key == items_order[i]
         IN  FillFrom(IF var_key \in Range(ALL_POSSIBLE_VARIABLES)
                      THEN str_replace(text, Token(var_key), py_str(row_vars[var_key]))
                      ELSE text,
                      row_vars, i + 1)

RECURSIVE BlankFrom(_, _, _)
BlankFrom(text, inners, i) ==
    IF i > Len(inners) THEN text
    ELSE BlankFrom(IF inners[i] \in Range(ALL_POSSIBLE_VARIABLES) THEN text
                   ELSE str_replace(text, "{{" \o inners[i] \o "}}", ""),
                   inners, i + 1)

\* Mutant of fill_prompt: after the replacement loop every token the scan found
\* that is not whitelisted is replaced by the empty string.
fill_prompt_blank_unknown(template, row_vars) ==
    BlankFrom(FillFrom(template, row_vars, 1), re_findall(template), 1)

\* Mutant of fill_prompt: a template without {{student_answer}} gets the answer
\* appended.
fill_prompt_append_answer(template, row_vars) ==
    IF Contains(template, Token("student_answer"))
    THEN FillFrom(template, row_vars, 1)
    ELSE FillFrom(template, row_vars, 1) \o py_str(row_vars["student_answer"])

\* final_prompt / current_filled_prompt for one mapping
fill_prompt(template, row_vars) == FillFrom(template, row_vars, 1)

\* answers_input if answers_input else ""
current_student_answer(answers_input) ==
    IF truthy(answers_input) THEN answers_input ELSE PyS("")

\* the single-answer branch
single_prompt(template, variable_values_from_fetch, answers_input) ==
    fill_prompt(template,
                dict_set(all_vars_for_template(variable_values_from_fetch),
                         "student_answer", current_student_answer(answers_input)))

\* one turn of the loop over the CSV answers
row_prompt(template, variable_values_from_fetch, student_answer_from_csv) ==
    LET current_row_vars ==
            dict_set(all_vars_for_template(variable_values_from_fetch),
                     "student_answer", student_answer_from_csv)
    IN  fill_prompt(template, current_row_vars)

\* Mutant of batch_prompts: the row mapping is bound once, to the last answer.
batch_prompts_last_answer(template, variable_values_from_fetch, answers) ==
    [ i \in 1..Len(answers) |->
        row_prompt(template, variable_values_from_fetch, answers[Len(answers)]) ]

\* the loop over the CSV answers
batch_prompts(template, variable_values_from_fetch, answers) ==
    [ i \in 1..Len(answers) |->
        row_prompt(template, variable_values_from_fetch, answers[i]) ]

\* final_prompts_generated_data, as the list of its "generated_prompt" values
generated_prompts(template, variable_values_from_fetch, answers_input, answers_method) ==
    IF answers_method = TEXT_BOX
    THEN << single_prompt(template, variable_values_from_fetch, answers_input) >>
    ELSE IF answers_method = UPLOAD_CSV /\ truthy(answers_input) /\ IsList(answers_input)
    THEN batch_prompts(template, variable_values_from_fetch, answers_input.v)
    ELSE << >>

\* the st.warning / st.info / st.error / st.success calls of one run, given the
\* tokens found in the template and the prompts the run built
generate_messages(in_use, prompts, answers_input, answers_method) ==
    (IF in_use \ Range(ALL_POSSIBLE_VARIABLES) # {}
     THEN {"warning: not in the predefined list"} ELSE {})
    \cup
    (IF /\ answers_method = TEXT_BOX
        /\ ~truthy(current_student_answer(answers_input))
        /\ "student_answer" \in in_use
     THEN {"info: no answer was provided"} ELSE {})
    \cup
    (IF answers_method = UPLOAD_CSV /\ ~(truthy(answers_input) /\ IsList(answers_input))
     THEN IF ~truthy(answers_input)
          THEN {"warning: no answers were processed from the CSV"}
          ELSE {"info: no answers extracted from the CSV"}
     ELSE {})
    \cup
    (IF answers_method \notin {TEXT_BOX, UPLOAD_CSV}
     THEN {"error: invalid answer method"} ELSE {})
    \cup
    (IF prompts = << >> THEN {"info: no prompts were generated"} ELSE {})
    \cup
    {"success: prompt processing complete"}

\* The call generate_prompt_action(...): what it leaves for the caller to see.
\* It reads variable_values_from_fetch and never writes to it.
generate_prompt_action(template, variable_values_from_fetch, url, answers_input, answers_method) ==
    /\ gen_called' = TRUE
    /\ answers_payload' = answers_input
    /\ final_prompts_generated_data' =
           generated_prompts(template, variable_values_from_fetch,
                             answers_input, answers_method)
    /\ non_allowed_vars' = non_allowed(template)
    /\ messages' = generate_messages(template_vars_in_use(template),
                                     final_prompts_generated_data',
                                     answers_input, answers_method)

-----------------------------------------------------------------------------
(* SpecGen: generate_prompt_action called on bounded inputs *)

MaxPieces == 3
MaxAnswers == 2

\* The pieces templates are put together from: whole tokens of the first and
\* the last whitelisted name, an unknown token, the two halves of a token, and
\* plain text with a newline.
GenPieces ==
    { "{{task_instruction}}", "{{student_answer}}", "{{unknown_var}}",
      "{{task_", "instruction}}", "Hi\n" }

RECURSIVE Concat(_, _)
Concat(q, i) == IF i > Len(q) THEN "" ELSE q[i] \o Concat(q, i + 1)

GenTemplates ==
    { Concat(q, 1) : q \in UNION { [1..n -> GenPieces] : n \in 0..MaxPieces } }

EmptyMapping == [ key \in Range(PREDEFINED_VARIABLES) |-> PyS("") ]

\* The mappings handed to generate_prompt_action: all empty; a plain value, an
\* extra key and the other keys missing; a value that holds a token; a value
\* that is None.
GenMappings ==
    { EmptyMapping,
      [ key \in {"task_instruction", "unknown_var"} |->
          IF key = "task_instruction" THEN PyS("T") ELSE PyS("U") ],
      dict_set(EmptyMapping, "task_instruction", PyS("{{student_answer}}")),
      dict_set(EmptyMapping, "task_instruction", PyNone) }

GenAnswerStrings == { "A", "{{task_instruction}}" }

GenAnswerLists ==
    UNION { [1..n -> { PyS(a) : a \in GenAnswerStrings }] : n \in 0..MaxAnswers }

\* the (answers_method, answers_input) pairs of a call
GenCalls ==
    ({TEXT_BOX} \X {PyS(""), PyS("A"), PyS("{")})
    \cup ({UPLOAD_CSV} \X ({PyNone} \cup { PyL(q) : q \in GenAnswerLists }))
    \cup ({"other"} \X {PyNone})

NoFile == [name |-> "", kind |-> "none", answers |-> << >>]

NoResponse == [kind |-> "none"]

InitGen ==
    /\ prompt_template \in GenTemplates
    /\ fetched_variable_values \in GenMappings
    /\ answer_input_method = TEXT_BOX
    /\ answers_payload = PyNone
    /\ content_url = ""
    /\ single_answer = ""
    /\ uploaded_csv_answers = PyNone
    /\ last_uploaded_filename = PyNone
    /\ uploader = NoFile
    /\ response = NoResponse
    /\ fetch_prev = EmptyMapping
    /\ fetch_ret = "none"
    /\ gen_called = FALSE
    /\ final_prompts_generated_data = << >>
    /\ non_allowed_vars = {}
    /\ messages = {}

\* One call of generate_prompt_action on the template and the mapping the
\* caller holds, with the answers and the method drawn from the bounded sets.
CallGenerate ==
    /\ ~gen_called
    /\ \E c \in GenCalls :
         /\ answer_input_method' = c[1]
         /\ generate_prompt_action(prompt_template, fetched_variable_values,
                                   content_url, c[2], c[1])
    /\ UNCHANGED << prompt_template, fetched_variable_values, content_url,
                    single_answer, uploaded_csv_answers, last_uploaded_filename,
                    uploader, response, fetch_prev, fetch_ret >>

NextGen == CallGenerate

SpecGen == InitGen /\ [][NextGen]_vars

-----------------------------------------------------------------------------
(* SpecFetch: fetch_and_populate_variables_action called on bounded inputs *)

MaxScreens == 2

\* a key that the document does not have
Missing == [t |-> "missing"]

\* What 'interactions' can be: absent, not a list, empty, a list whose first
\* element is no object, and objects with and without the two fields, with
\* values of the right and of the wrong type.
InteractionsChoices ==
    { Missing,
      PyS("none"),
      PyL(<< >>),
      PyL(<< PyS("first") >>),
      PyL(<< PyD([instruction |-> PyS("Write about your day.")]) >>),
      PyL(<< PyD([instruction |-> PyNone, canDoStatement |-> PyS("I can")]) >>),
      PyL(<< PyD([instruction |-> PyI(5),
                  canDoStatement |->
                      PyL(<< PyD([statement |-> PyS("I can greet")]),
                             PyS("loose"),
                             PyD([statement |-> PyS("")]),
                             PyD([statement |-> PyI(12)]) >>)]),
             PyD([instruction |-> PyS("second")]) >>) }

\* the entries 'referenceScreens' is put together from
ReferenceEntries ==
    { PyD([category |-> PyS("vocabulary"),
           contents |-> PyD([vocabularyList |-> PyL(<< PyS("cat"), PyS("dog") >>)])]),
      PyD([category |-> PyS("vocabulary"),
           contents |-> PyD([vocabularyList |->
                                PyL(<< PyS(""), PyI(7), PyNone, PyB(TRUE) >>)])]),
      PyD([category |-> PyS("grammar"),
           contents |-> PyD([reference |-> PyS("Past simple")])]),
      PyD([category |-> PyS("grammar"),
           contents |-> PyD([reference |-> PyL(<< PyS("Present perfect") >>)])]),
      PyD([category |-> PyS("communication"),
           contents |-> PyD([reference |-> PyS("Could you ...?")])]),
      PyD([category |-> PyS("communication"),
           contents |-> PyD([reference |-> PyS("Thanks a lot!")])]),
      PyD([category |-> PyS("grammar"),
           contents |-> PyD([note |-> PyS("no reference")])]),
      PyD([category |-> PyS("grammar"), contents |-> PyS("text")]),
      PyD([category |-> PyS("vocabulary"),
           contents |-> PyD([vocabularyList |-> PyS("cat")])]),
      PyS("loose") }

ReferenceChoices ==
    { Missing, PyD([category |-> PyS("grammar")]) }
    \cup { PyL(q) : q \in UNION { [1..n -> ReferenceEntries] : n \in 0..MaxScreens } }

\* What 'secondaryScreens' can be.
SecondaryChoices ==
    { Missing,
      PyI(0),
      PyL(<< PyD([contents |->
                    PyL(<< PyD([secondaryContent |-> PyS("What did you do?")]),
                           PyD([secondaryContent |-> PyS("")]),
                           PyS("loose") >>)]),
             PyD([contents |-> PyS("text")]),
             PyD([contents |-> PyL(<< PyD([secondaryContent |-> PyI(3)]) >>)]) >>),
      PyL(<< PyI(1),
             PyD([title |-> PyS("no contents")]),
             PyD([contents |-> PyL(<< PyD([secondaryContent |-> PyS("Why?")]) >>)]) >>) }

\* the JSON object with the given (or missing) three members and one more
activity_document(interactions, reference_screens, secondary_screens) ==
    LET all == [ id |-> PyS("a1"),
                 interactions |-> interactions,
                 referenceScreens |-> reference_screens,
                 secondaryScreens |-> secondary_screens ]
    IN  PyD([ k \in { k \in DOMAIN all : all[k] # Missing } |-> all[k] ])

ObjectDocuments ==
    { activity_document(i, r, g) :
        i \in InteractionsChoices, r \in ReferenceChoices, g \in SecondaryChoices }

\* valid JSON that is no object
OtherDocuments == { PyL(<< >>), PyS("ok"), PyNone }

Responses ==
    { [kind |-> "transport_error"], [kind |-> "http_error"], [kind |-> "bad_json"] }
    \cup { [kind |-> "json", doc |-> d] : d \in ObjectDocuments \cup OtherDocuments }

URL == "https://oscar.example/activity/1"

\* What the session can hold before a fetch: the initial values, the values of
\* an earlier fetch or edit, and values that are not strings.
PreviousMappings ==
    { EmptyMapping,
      [ var \in PredefinedSet |-> PyS("old " \o var) ],
      [ var \in PredefinedSet |->
          IF var = "task_instruction" THEN PyNone ELSE PyS("old") ] }

InitFetch ==
    /\ fetched_variable_values \in PreviousMappings
    /\ content_url \in {"", URL}
    /\ prompt_template = ""
    /\ answer_input_method = TEXT_BOX
    /\ answers_payload = PyNone
    /\ single_answer = ""
    /\ uploaded_csv_answers = PyNone
    /\ last_uploaded_filename = PyNone
    /\ uploader = NoFile
    /\ response = NoResponse
    /\ fetch_prev = EmptyMapping
    /\ fetch_ret = "none"
    /\ gen_called = FALSE
    /\ final_prompts_generated_data = << >>
    /\ non_allowed_vars = {}
    /\ messages = {}

FetchRest ==
    UNCHANGED << prompt_template, content_url, answer_input_method, single_answer,
                 uploaded_csv_answers, last_uploaded_filename, uploader,
                 answers_payload, gen_called, final_prompts_generated_data,
                 non_allowed_vars, messages >>

\* "if not content_url": no request is made
FetchEmptyUrl ==
    /\ fetch_ret = "none"
    /\ content_url = ""
    /\ fetch_and_populate_variables_action(content_url, NoResponse)
    /\ FetchRest

\* requests.get raises (no connection, timeout)
FetchTransportError ==
    /\ fetch_ret = "none"
    /\ content_url # ""
    /\ fetch_and_populate_variables_action(content_url, [kind |-> "transport_error"])
    /\ FetchRest

\* raise_for_status raises (4xx, 5xx)
FetchHttpError ==
    /\ fetch_ret = "none"
    /\ content_url # ""
    /\ fetch_and_populate_variables_action(content_url, [kind |-> "http_error"])
    /\ FetchRest

\* response.json() raises
FetchBadJson ==
    /\ fetch_ret = "none"
    /\ content_url # ""
    /\ fetch_and_populate_variables_action(content_url, [kind |-> "bad_json"])
    /\ FetchRest

\* the body parses to a JSON value
FetchJson ==
    /\ fetch_ret = "none"
    /\ content_url # ""
    /\ \E d \in ObjectDocuments \cup OtherDocuments :
         fetch_and_populate_variables_action(content_url, [kind |-> "json", doc |-> d])
    /\ FetchRest

NextFetch ==
    \/ FetchEmptyUrl
    \/ FetchTransportError
    \/ FetchHttpError
    \/ FetchBadJson
    \/ FetchJson

SpecFetch == InitFetch /\ [][NextFetch]_vars

-----------------------------------------------------------------------------
(* Spec: run_ui, one script run per user interaction *)

\* default_template: its seven placeholders in their order, with the prose
\* between them (which holds no brace) cut down to the headings
default_template ==
    "grammar: \"{{grammar_reference}}\"\nvocabulary: {{vocabulary_list}}\n"
    \o "communication phrases: \"{{communication_reference}}\"\n---\n"
    \o "Task Instruction:\n{{task_instruction}}\n---\n"
    \o "Guiding Instruction/Questions:\n{{guiding_questions}}\n---\n"
    \o "Student Response:\n{{student_answer}}\n---\n"
    \o "Can-Do Goals:\n{{can_do_statements}}\n"

\* what the user can put in the template box
UiTemplates == { default_template, "Hello {{student_answer}}! {{unknown_var}}" }

\* what a fetch can get in a session
UiResponses ==
    { [kind |-> "http_error"],
      [kind |-> "json",
       doc |-> activity_document(
                   PyL(<< PyD([instruction |-> PyS("Write about your day.")]) >>),
                   PyL(<< PyD([category |-> PyS("vocabulary"),
                               contents |-> PyD([vocabularyList |->
                                                   PyL(<< PyS("cat"), PyS("dog") >>)])]) >>),
                   Missing)],
      [kind |-> "json",
       doc |-> activity_document(
                   PyL(<< PyD([instruction |-> PyNone]) >>), Missing, Missing)] }

\* the variables the user edits by hand, and the text typed
UiEditedVariables == { "task_instruction", "can_do_statements" }
UiEditText == "typed"

UiAnswerTexts == { "", "My answer" }

\* The files the user can drop on the uploader; kind says what pd.read_csv and
\* the column test make of the file, answers is df["Answers"].astype(str).tolist().
UiFiles ==
    { [name |-> "a.csv", kind |-> "ok", answers |-> << "A1", "A2" >>],
      [name |-> "a.csv", kind |-> "ok", answers |-> << "Z1" >>],
      [name |-> "a.csv", kind |-> "no_answers_column", answers |-> << >>],
      [name |-> "b.csv", kind |-> "ok", answers |-> << >>],
      [name |-> "b.csv", kind |-> "unparseable", answers |-> << >>] }

\* What st.text_area(value=current, key=...) returns when the user did not
\* type in it: the text of a string, str() of another value; a None is either
\* handed back as None or shown as "None", depending on the Streamlit version.
text_area_value(current, none_is_kept) ==
    IF current.t = "none"
    THEN (IF none_is_kept THEN PyNone ELSE PyS("None"))
    ELSE PyS(py_str(current))

\* The loop over the six editable text areas.  edit_var is the variable the user
\* typed into in this interaction ("" for none).  widget_state is what the six
\* keyed widgets held before this run; when state_wins, a keyed widget keeps it
\* although the value passed to it changed (newer Streamlit), otherwise the
\* widget shows the value passed (older Streamlit).
edited_values(values, widget_state, state_wins, none_is_kept, edit_var, edit_text) ==
    [ var_name \in DOMAIN values \cup PredefinedSet |->
        IF var_name \notin PredefinedSet THEN values[var_name]
        ELSE IF var_name = edit_var THEN PyS(edit_text)
        ELSE IF state_wins /\ var_name \in DOMAIN widget_state
             THEN widget_state[var_name]
             ELSE text_area_value(dict_get(values, var_name, PyS("")), none_is_kept) ]

\* The answer section in CSV mode: uploaded_csv_answers and
\* last_uploaded_filename after it.  Only a file whose name differs from
\* last_uploaded_filename is read.
csv_section(uploaded_file, answers, filename) ==
    IF uploaded_file # NoFile
    THEN IF PyS(uploaded_file.name) # filename
         THEN IF uploaded_file.kind = "ok"
              THEN [ answers |-> PyL([ i \in 1..Len(uploaded_file.answers) |->
                                         PyS(uploaded_file.answers[i]) ]),
                     filename |-> PyS(uploaded_file.name) ]
              ELSE [ answers |-> PyNone, filename |-> PyNone ]
         ELSE [ answers |-> answers, filename |-> filename ]
    ELSE IF filename # PyNone
         THEN [ answers |-> PyNone, filename |-> PyNone ]
         ELSE [ answers |-> answers, filename |-> filename ]

\* Mutant of text_section: the text box leaves the CSV state as it is.
text_section_keep(answers, filename) ==
    [ answers |-> answers, filename |-> filename ]

\* The answer section in text-box mode.
text_section(answers, filename) ==
    IF answers # PyNone
    THEN [ answers |-> PyNone, filename |-> PyNone ]
    ELSE [ answers |-> answers, filename |-> filename ]

\* the widgets as the last run left them, no button pressed
Untouched ==
    [ template |-> prompt_template,
      url |-> content_url,
      fetch_clicked |-> FALSE,
      resp |-> NoResponse,
      edit_var |-> "",
      radio |-> answer_input_method,
      answer |-> single_answer,
      file |-> uploader,
      generate_clicked |-> FALSE ]

\* One run of the script run_ui, top to bottom, on the widget values in.
run_ui(in, state_wins, none_is_kept) ==
    LET fetched ==
            IF in.fetch_clicked
            THEN fetch_values(fetched_variable_values, in.url, in.resp)
            ELSE fetched_variable_values
        values ==
            edited_values(fetched, fetched_variable_values,
                          in.fetch_clicked /\ state_wins, none_is_kept,
                          in.edit_var, UiEditText)
        csv == IF in.radio = answer_options[1]
               THEN text_section(uploaded_csv_answers, last_uploaded_filename)
               ELSE csv_section(in.file, uploaded_csv_answers, last_uploaded_filename)
        answer == IF in.radio = answer_options[1] THEN in.answer ELSE ""
        answers_for_generate ==
            IF in.radio = answer_options[1] THEN PyS(answer) ELSE csv.answers
    IN  /\ prompt_template' = in.template
        /\ content_url' = in.url
        /\ IF in.fetch_clicked
           THEN /\ fetch_prev' = fetched_variable_values
                /\ response' = in.resp
                /\ fetch_ret' = IF fetch_succeeds(in.url, in.resp) THEN "True" ELSE "False"
           ELSE /\ fetch_prev' = EmptyMapping
                /\ response' = NoResponse
                /\ fetch_ret' = "none"
        /\ fetched_variable_values' = values
        /\ answer_input_method' = in.radio
        /\ single_answer' = answer
        /\ uploaded_csv_answers' = csv.answers
        /\ last_uploaded_filename' = csv.filename
        /\ uploader' = IF in.radio = answer_options[1] THEN NoFile ELSE in.file
        /\ IF in.generate_clicked
           THEN generate_prompt_action(in.template, values, in.url,
                                       answers_for_generate, in.radio)
           ELSE /\ gen_called' = FALSE
                /\ answers_payload' = PyNone
                /\ final_prompts_generated_data' = << >>
                /\ non_allowed_vars' = {}
                /\ messages' = {}

\* the state after the first run of the script in a new session
Init ==
    /\ prompt_template = default_template
    /\ content_url = ""
    /\ fetched_variable_values = [ var \in PredefinedSet |-> PyS("") ]
    /\ answer_input_method = TEXT_BOX
    /\ single_answer = ""
    /\ uploaded_csv_answers = PyNone
    /\ last_uploaded_filename = PyNone
    /\ uploader = NoFile
    /\ response = NoResponse
    /\ fetch_prev = EmptyMapping
    /\ fetch_ret = "none"
    /\ answers_payload = PyNone
    /\ gen_called = FALSE
    /\ final_prompts_generated_data = << >>
    /\ non_allowed_vars = {}
    /\ messages = {}

\* the user edits the template box
EditTemplate ==
    \E t \in UiTemplates, k \in BOOLEAN :
        /\ t # prompt_template
        /\ run_ui([Untouched EXCEPT !.template = t], FALSE, k)

\* the user edits the URL field
EditUrl ==
    \E u \in {"", URL}, k \in BOOLEAN :
        /\ u # content_url
        /\ run_ui([Untouched EXCEPT !.url = u], FALSE, k)

\* the user presses "Fetch & Populate Variables"
ClickFetch ==
    \E r \in UiResponses, w \in BOOLEAN, k \in BOOLEAN :
        run_ui([Untouched EXCEPT !.fetch_clicked = TRUE,
                                 !.resp = IF content_url = "" THEN NoResponse ELSE r],
               w, k)

\* the user types into one of the six variable boxes
EditVariable ==
    \E v \in UiEditedVariables, k \in BOOLEAN :
        run_ui([Untouched EXCEPT !.edit_var = v], FALSE, k)

\* the user picks the other answer method; the widget of that method is new
SelectMethod ==
    \E m \in Range(answer_options), k \in BOOLEAN :
        /\ m # answer_input_method
        /\ run_ui([Untouched EXCEPT !.radio = m, !.answer = "", !.file = NoFile],
                  FALSE, k)

\* the user types the answer into the text box
TypeAnswer ==
    \E a \in UiAnswerTexts, k \in BOOLEAN :
        /\ answer_input_method = answer_options[1]
        /\ a # single_answer
        /\ run_ui([Untouched EXCEPT !.answer = a], FALSE, k)

\* the user drops a file on the uploader, empty or not
UploadFile ==
    \E f \in UiFiles, k \in BOOLEAN :
        /\ answer_input_method = answer_options[2]
        /\ f # uploader
        /\ run_ui([Untouched EXCEPT !.file = f], FALSE, k)

\* the user removes the file from the uploader
RemoveFile ==
    \E k \in BOOLEAN :
        /\ answer_input_method = answer_options[2]
        /\ uploader # NoFile
        /\ run_ui([Untouched EXCEPT !.file = NoFile], FALSE, k)

\* the user presses "Process & Generate Prompts"
ClickGenerate ==
    \E k \in BOOLEAN :
        run_ui([Untouched EXCEPT !.generate_clicked = TRUE], FALSE, k)

Next ==
    \/ EditTemplate
    \/ EditUrl
    \/ ClickFetch
    \/ EditVariable
    \/ SelectMethod
    \/ TypeAnswer
    \/ UploadFile
    \/ RemoveFile
    \/ ClickGenerate

Spec == Init /\ [][Next]_vars

-----------------------------------------------------------------------------
(* Properties of generate_prompt_action, checked under SpecGen *)

\* the text "{{" + inner + "}}", written out independently of Token
Placeholder(inner) == "{{" \o inner \o "}}"

Whitelist ==
    { "task_instruction", "vocabulary_list", "grammar_reference",
      "communication_reference", "guiding_questions", "can_do_statements",
      "student_answer" }

\* the answer that belongs to the i-th generated prompt
AnswerOf(i) ==
    IF answer_input_method = TEXT_BOX
    THEN (IF answers_payload.t = "str" THEN answers_payload.v ELSE "")
    ELSE py_str(answers_payload.v[i])

\* the text that stands for variable k in the i-th generated prompt
ValueOf(k, i) ==
    IF k = "student_answer" THEN AnswerOf(i)
    ELSE IF k \in DOMAIN fetched_variable_values
         THEN py_str(fetched_variable_values[k])
         ELSE ""

Outputs == DOMAIN final_prompts_generated_data

\* C1 (as claimed): the text inserted for a placeholder is not scanned again:
\* when the template holds {{k}} and the value of k holds the whitelisted token
\* {{n}}, that token is still in the generated prompt, in single-answer and in
\* batch mode.
C1_InsertedTextIsNotRescanned ==
    gen_called =>
        \A i \in Outputs : \A k \in Whitelist : \A n \in Whitelist :
            ( /\ Contains(prompt_template, Placeholder(k))
              /\ Contains(ValueOf(k, i), Placeholder(n)) )
            => Contains(final_prompts_generated_data[i], Placeholder(n))

NoWhitelistedToken(text) ==
    \A n \in Whitelist : ~Contains(text, Placeholder(n))

\* C2 (as claimed): when no value, the answer included, contains "{{", no
\* whitelisted token is left in any generated prompt.
C2_NoTokenLeft_AsClaimed ==
    gen_called =>
        \A i \in Outputs :
            (\A k \in Whitelist : ~Contains(ValueOf(k, i), "{{"))
            => NoWhitelistedToken(final_prompts_generated_data[i])

\* every "{{" of the text is the start of a whitelisted token
EveryOpenerStartsAToken(text) ==
    \A p \in 1..Len(text) :
        StartsAt(text, p, "{{") =>
            \E n \in Whitelist : StartsAt(text, p, Placeholder(n))

\* C2 (amended): when no value, the answer included, contains "{" and every
\* "{{" of the template starts a whitelisted token, no whitelisted token is left
\* in any generated prompt.
C2_NoTokenLeft ==
    gen_called =>
        \A i \in Outputs :
            ( /\ \A k \in Whitelist : ~Contains(ValueOf(k, i), "{")
              /\ EveryOpenerStartsAToken(prompt_template) )
            => NoWhitelistedToken(final_prompts_generated_data[i])

\* C2 witness: a template with two whitelisted tokens, filled in batch mode from
\* values without braces.
C2_Witness ==
    /\ gen_called
    /\ answer_input_method = UPLOAD_CSV
    /\ Len(final_prompts_generated_data) = 2
    /\ Contains(prompt_template, Placeholder("task_instruction"))
    /\ Contains(prompt_template, Placeholder("student_answer"))
    /\ EveryOpenerStartsAToken(prompt_template)
    /\ \A i \in Outputs : \A k \in Whitelist : ~Contains(ValueOf(k, i), "{")
    /\ ValueOf("task_instruction", 1) = "T"

\* the number of prompts a call has to produce
ExpectedCount ==
    IF answer_input_method = TEXT_BOX THEN 1
    ELSE IF answer_input_method = UPLOAD_CSV /\ answers_payload.t = "list"
    THEN Len(answers_payload.v)
    ELSE 0

\* the scan reports exactly the captured inner texts that are not whitelisted,
\* warns when there is one, and the prompts are produced all the same
ReportedAndProceeds ==
    /\ non_allowed_vars = Range(re_findall(prompt_template)) \ Whitelist
    /\ (non_allowed_vars # {} => "warning: not in the predefined list" \in messages)
    /\ Len(final_prompts_generated_data) = ExpectedCount

\* C3 (as claimed): every reported token is verbatim in every generated prompt,
\* a warning is emitted and generation proceeds.
C3_UnknownLeftVerbatim_AsClaimed ==
    gen_called =>
        /\ ReportedAndProceeds
        /\ \A inner \in non_allowed_vars : \A i \in Outputs :
               Contains(final_prompts_generated_data[i], Placeholder(inner))

\* C3 (amended): every reported token whose text "{{" + inner + "}}" holds no
\* whitelisted token is verbatim in every generated prompt, a warning is
\* emitted and generation proceeds.
C3_UnknownLeftVerbatim ==
    gen_called =>
        /\ ReportedAndProceeds
        /\ \A inner \in non_allowed_vars :
               NoWhitelistedToken(Placeholder(inner)) =>
                   \A i \in Outputs :
                       Contains(final_prompts_generated_data[i], Placeholder(inner))

\* C3 witness: {{unknown_var}} beside a whitelisted token that is filled, in a
\* batch of two, with a mapping that carries the key unknown_var.
C3_Witness ==
    /\ gen_called
    /\ "unknown_var" \in non_allowed_vars
    /\ "warning: not in the predefined list" \in messages
    /\ "unknown_var" \in DOMAIN fetched_variable_values
    /\ Contains(prompt_template, Placeholder("task_instruction"))
    /\ Len(final_prompts_generated_data) = 2
    /\ \A i \in Outputs :
           /\ Contains(final_prompts_generated_data[i], "{{unknown_var}}")
           /\ final_prompts_generated_data[i] # prompt_template

\* C4: a batch of N >= 1 answers gives N prompts, the i-th being the
\* single-answer result for the i-th answer with the same template and mapping.
C4_BatchIsRowwiseSingle ==
    ( /\ gen_called
      /\ answer_input_method = UPLOAD_CSV
      /\ answers_payload.t = "list"
      /\ Len(answers_payload.v) >= 1 )
    => /\ Len(final_prompts_generated_data) = Len(answers_payload.v)
       /\ \A i \in 1..Len(answers_payload.v) :
              final_prompts_generated_data[i] =
                  single_prompt(prompt_template, fetched_variable_values,
                                answers_payload.v[i])

\* C4 witness: two different answers, a template that uses the answer and
\* another variable, two different prompts in the order of the answers.
C4_Witness ==
    /\ gen_called
    /\ answer_input_method = UPLOAD_CSV
    /\ answers_payload = PyL(<< PyS("{{task_instruction}}"), PyS("A") >>)
    /\ prompt_template = "{{task_instruction}}Hi\n{{student_answer}}"
    /\ final_prompts_generated_data = << "THi\n{{task_instruction}}", "THi\nA" >>

\* C9: a template without any whitelisted token comes out unchanged, for every
\* mapping and answer, in single-answer mode and for every row of a batch.
C9_NoPlaceholderUnchanged ==
    gen_called =>
        ( NoWhitelistedToken(prompt_template)
          => \A i \in Outputs : final_prompts_generated_data[i] = prompt_template )

\* C9 witness: a non-empty template with braces and an unknown token but no
\* whitelisted one, filled for two rows from a mapping with values.
C9_Witness ==
    /\ gen_called
    /\ NoWhitelistedToken(prompt_template)
    /\ Contains(prompt_template, "{{unknown_var}}")
    /\ Contains(prompt_template, "{{task_")
    /\ ValueOf("task_instruction", 1) = "T"
    /\ Len(final_prompts_generated_data) = 2
    /\ \A i \in Outputs : final_prompts_generated_data[i] = prompt_template

-----------------------------------------------------------------------------
(* Properties of fetch_and_populate_variables_action, checked under SpecFetch *)

SixVariables ==
    { "task_instruction", "vocabulary_list", "grammar_reference",
      "communication_reference", "guiding_questions", "can_do_statements" }

AllSixEmpty ==
    \A var \in SixVariables :
        /\ var \in DOMAIN fetched_variable_values
        /\ fetched_variable_values[var] = PyS("")

\* the fetch fails as a whole: no URL, the request or the status check raises,
\* the body is no JSON, or the extraction raises
FetchFailsAsAWhole ==
    \/ content_url = ""
    \/ response.kind \in {"transport_error", "http_error", "bad_json"}
    \/ response.kind = "json" /\ response.doc.t # "dict"

\* C5: a fetch that fails as a whole returns False, and after a fetch that
\* returned False all six variables are "", whatever they were before.
C5_FailedFetchLeavesAllEmpty ==
    fetch_ret # "none" =>
        /\ FetchFailsAsAWhole => fetch_ret = "False"
        /\ fetch_ret = "False" => AllSixEmpty

\* C5 witness: the session held the values of an earlier fetch, the body of the
\* new response was no JSON, and the call returned False.
C5_Witness ==
    /\ fetch_ret = "False"
    /\ response.kind = "bad_json"
    /\ \A var \in SixVariables : fetch_prev[var] = PyS("old " \o var)
    /\ AllSixEmpty

Branches == { "interactions", "referenceScreens", "secondaryScreens" }

DerivedFrom(branch) ==
    CASE branch = "interactions"     -> { "task_instruction", "can_do_statements" }
      [] branch = "referenceScreens" -> { "vocabulary_list", "grammar_reference",
                                          "communication_reference" }
      [] branch = "secondaryScreens" -> { "guiding_questions" }

\* the member is missing or has the wrong shape
Broken(members, branch) ==
    \/ branch \notin DOMAIN members
    \/ members[branch].t # "list"
    \/ /\ branch = "interactions"
       /\ \/ members[branch].v = << >>
          \/ members[branch].v[1].t # "dict"

\* well-formed values of a member
WellFormed(branch) ==
    CASE branch = "interactions" ->
             { c \in InteractionsChoices \ {Missing} :
                 c.t = "list" /\ c.v # << >> /\ c.v[1].t = "dict" }
      [] branch = "referenceScreens" ->
             { c \in ReferenceChoices \ {Missing} : c.t = "list" }
      [] branch = "secondaryScreens" ->
             { c \in SecondaryChoices \ {Missing} : c.t = "list" }

\* the members of the document with one of them replaced
WithMember(members, branch, value) ==
    [ k \in DOMAIN members \cup {branch} |-> IF k = branch THEN value ELSE members[k] ]

\* For every member that is missing or has the wrong shape: the fetch succeeded,
\* the variables derived from it are "", and every other variable is what it is
\* for the same document with that member well-formed.
IsolatedPerField(members) ==
    \A branch \in Branches :
        Broken(members, branch) =>
            /\ fetch_ret = "True"
            /\ \A var \in DerivedFrom(branch) :
                   fetched_variable_values[var] = PyS("")
            /\ \A value \in WellFormed(branch) :
                   \A var \in SixVariables \ DerivedFrom(branch) :
                       fetched_variable_values[var] =
                           populate(EmptyMapping,
                                    WithMember(members, branch, value))[var]

SameValue(a, b) == a.t = b.t /\ a = b

\* The structures nested inside the three members, and what is left of a member
\* when every nested structure that is missing or has the wrong shape is taken
\* out of it.

\* an entry of 'referenceScreens' of the right shape: an object whose 'contents'
\* is an object, with a list as 'vocabularyList' when it is a vocabulary entry
ReferenceEntryWellShaped(ref) ==
    /\ ref.t = "dict"
    /\ "contents" \in DOMAIN ref.v
    /\ ref.v["contents"].t = "dict"
    /\ ( /\ "category" \in DOMAIN ref.v
         /\ ref.v["category"].t = "str"
         /\ ref.v["category"].v = "vocabulary" )
       => /\ "vocabularyList" \in DOMAIN ref.v["contents"].v
          /\ ref.v["contents"].v["vocabularyList"].t = "list"

\* a screen of 'secondaryScreens' of the right shape: an object whose 'contents'
\* is a list
ScreenWellShaped(screen) ==
    /\ screen.t = "dict"
    /\ "contents" \in DOMAIN screen.v
    /\ screen.v["contents"].t = "list"

\* a screen of the right shape without the items that are no objects
ScreenOfObjects(screen) ==
    PyD([screen.v EXCEPT !["contents"] = PyL(SelectSeq(@.v, IsDict))])

\* 'canDoStatement' of the first interaction is missing or no list
CanDoStatementBroken(members) ==
    /\ ~Broken(members, "interactions")
    /\ LET first == members["interactions"].v[1].v
       IN  \/ "canDoStatement" \notin DOMAIN first
           \/ first["canDoStatement"].t # "list"

\* the first interaction with a well-shaped 'canDoStatement': the list without
\* the statements that are no objects, an empty list when it is broken
InteractionOfObjects(members) ==
    LET first == members["interactions"].v[1].v
    IN  PyD(dict_set(first, "canDoStatement",
                     IF CanDoStatementBroken(members) THEN PyL(<< >>)
                     ELSE PyL(SelectSeq(first["canDoStatement"].v, IsDict))))

\* the member without its wrongly shaped nested structures
WithoutBrokenParts(members, branch) ==
    CASE branch = "interactions" ->
             PyL([members[branch].v EXCEPT ![1] = InteractionOfObjects(members)])
      [] branch = "referenceScreens" ->
             PyL(SelectSeq(members[branch].v, ReferenceEntryWellShaped))
      [] branch = "secondaryScreens" ->
             PyL([ i \in DOMAIN SelectSeq(members[branch].v, ScreenWellShaped) |->
                     ScreenOfObjects(SelectSeq(members[branch].v, ScreenWellShaped)[i]) ])

\* the document with every member that is there and of the right shape
\* replaced by the member without its wrongly shaped nested structures
WithoutBrokenNested(members) ==
    [ k \in DOMAIN members |->
        IF k \in Branches /\ ~Broken(members, k)
        THEN WithoutBrokenParts(members, k)
        ELSE members[k] ]

\* For the structures nested inside the members: the fetch succeeded, a broken
\* 'canDoStatement' leaves can_do_statements "", a list of reference entries
\* (of screens) none of which has the right shape leaves its variables "", and
\* every variable is what it is for the document without the wrongly shaped
\* nested structures.
IsolatedPerNestedStructure(members) ==
    /\ fetch_ret = "True"
    /\ CanDoStatementBroken(members) =>
           fetched_variable_values["can_do_statements"] = PyS("")
    /\ \A branch \in {"referenceScreens", "secondaryScreens"} :
           ( /\ ~Broken(members, branch)
             /\ WithoutBrokenParts(members, branch) = PyL(<< >>) )
           => \A var \in DerivedFrom(branch) :
                  fetched_variable_values[var] = PyS("")
    /\ \A var \in SixVariables :
           SameValue(fetched_variable_values[var],
                     populate(EmptyMapping, WithoutBrokenNested(members))[var])

\* the members of the document fetched; a document that is no object has none
FetchedMembers == IF response.doc.t = "dict" THEN response.doc.v ELSE << >>

\* C6 (as claimed): for any successfully parsed JSON document, a member (or a
\* structure nested inside it) that is missing or wrongly shaped leaves the
\* fetch successful, empties only the variables derived from it and leaves
\* every other variable as it is with that part well-formed; a document
\* without 'interactions' gives "" for task_instruction and can_do_statements
\* and no failure.
C6_IsolatedPerField_AsClaimed ==
    (fetch_ret # "none" /\ content_url # "" /\ response.kind = "json") =>
        /\ IsolatedPerField(FetchedMembers)
        /\ IsolatedPerNestedStructure(FetchedMembers)

\* What the code keeps of it: the same for the documents that are objects.
IsolatedForObjects ==
    ( /\ fetch_ret # "none"
      /\ content_url # ""
      /\ response.kind = "json"
      /\ response.doc.t = "dict" )
    => /\ IsolatedPerField(FetchedMembers)
       /\ IsolatedPerNestedStructure(FetchedMembers)

\* C7 (as claimed): after every fetch each of the six values is a string.
C7_ValuesAreStrings ==
    fetch_ret # "none" =>
        \A var \in SixVariables :
            /\ var \in DOMAIN fetched_variable_values
            /\ fetched_variable_values[var].t = "str"

\* a fetch that parsed an object whose 'referenceScreens' is a list
FetchedReferenceList ==
    /\ fetch_ret = "True"
    /\ response.kind = "json"
    /\ response.doc.t = "dict"
    /\ "referenceScreens" \in DOMAIN response.doc.v
    /\ response.doc.v["referenceScreens"].t = "list"

\* the list 'referenceScreens' of the document fetched
FetchedReferences == response.doc.v["referenceScreens"].v

\* the i-th entry is an object whose 'category' is cat
HasCategory(i, cat) ==
    LET ref == FetchedReferences[i]
    IN  /\ ref.t = "dict"
        /\ "category" \in DOMAIN ref.v
        /\ ref.v["category"].t = "str"
        /\ ref.v["category"].v = cat

\* the i-th entry has an object as its 'contents'
HasContents(i) ==
    LET ref == FetchedReferences[i]
    IN  /\ ref.t = "dict"
        /\ "contents" \in DOMAIN ref.v
        /\ ref.v["contents"].t = "dict"

\* the 'reference' field of the i-th entry, "" when it has none
ReferenceField(i) ==
    IF HasContents(i) /\ "reference" \in DOMAIN FetchedReferences[i].v["contents"].v
    THEN FetchedReferences[i].v["contents"].v["reference"]
    ELSE PyS("")

\* the 'reference' field of the last of the entries at the indices in such,
\* "" when there is none
LastReference(such) ==
    IF such = {} THEN PyS("")
    ELSE ReferenceField(CHOOSE i \in such : \A j \in such : j <= i)

\* the variable extracted from the entries of each category
ReferenceVariable ==
    [ grammar |-> "grammar_reference", communication |-> "communication_reference" ]

\* C12 (as claimed): after a fetch of a document whose 'referenceScreens' is a
\* list, grammar_reference (communication_reference) is the 'reference' field of
\* the last entry with category 'grammar' ('communication'); no earlier entry
\* and no entry of another category contributes.
C12_LastEntryWins_AsClaimed ==
    FetchedReferenceList =>
        \A cat \in DOMAIN ReferenceVariable :
            SameValue(fetched_variable_values[ReferenceVariable[cat]],
                      LastReference({ i \in DOMAIN FetchedReferences :
                                        HasCategory(i, cat) }))

\* C12 (amended): after such a fetch, grammar_reference
\* (communication_reference) is the 'reference' field of the last entry with
\* category 'grammar' ('communication') whose 'contents' is an object, "" when
\* that entry has no such field or there is no such entry; no earlier entry and
\* no entry of another category contributes.
C12_LastEntryWins ==
    FetchedReferenceList =>
        \A cat \in DOMAIN ReferenceVariable :
            SameValue(fetched_variable_values[ReferenceVariable[cat]],
                      LastReference({ i \in DOMAIN FetchedReferences :
                                        HasCategory(i, cat) /\ HasContents(i) }))

\* C12 happens: two grammar entries with different 'reference' fields, and the
\* value extracted is that of the second.
C12_Witness ==
    /\ FetchedReferenceList
    /\ Len(FetchedReferences) = 2
    /\ HasCategory(1, "grammar") /\ HasContents(1)
    /\ HasCategory(2, "grammar") /\ HasContents(2)
    /\ ReferenceField(1) = PyL(<< PyS("Present perfect") >>)
    /\ ReferenceField(2) = PyS("Past simple")
    /\ fetched_variable_values["grammar_reference"] = PyS("Past simple")

-----------------------------------------------------------------------------
(* Properties of the session, checked under Spec *)

\* a mapping with keys a caller could add to it
WithExtraKeys(values) ==
    dict_set(dict_set(dict_set(values, "unknown_var", PyS("X")),
                      "student_answer", PyS("stale")),
             "task", PyS("Y"))

\* C8: in every state of a session, whatever fetches, edits and generations came
\* before, the keys of fetched_variable_values are exactly the six content
\* variables (no student_answer, no other key), and the prompts a generation
\* built are those it builds from the same mapping with extra keys added: only
\* the seven whitelisted names are substituted.
C8_OnlyTheSixKeys ==
    /\ DOMAIN fetched_variable_values = Range(PREDEFINED_VARIABLES)
    /\ "student_answer" \notin DOMAIN fetched_variable_values
    /\ gen_called =>
           final_prompts_generated_data =
               generated_prompts(prompt_template,
                                 WithExtraKeys(fetched_variable_values),
                                 answers_payload, answer_input_method)

\* C8 happens: a generation after a successful fetch and a manual edit, on a
\* template that holds a token whose name is an extra key.
C8_Witness ==
    /\ gen_called
    /\ final_prompts_generated_data # << >>
    /\ Contains(prompt_template, "{{unknown_var}}")
    /\ fetched_variable_values["vocabulary_list"] = PyS("cat, dog")
    /\ fetched_variable_values["can_do_statements"] = PyS(UiEditText)

\* a file that cannot give answers is in the uploader
FailedUpload ==
    /\ answer_input_method = UPLOAD_CSV
    /\ uploader # NoFile
    /\ uploader.kind \in {"no_answers_column", "unparseable"}

\* C10 (as claimed): at the end of every run in which the uploader holds a file
\* without an 'Answers' column, or one that cannot be parsed, uploaded_csv_answers
\* is None whatever an earlier upload left there, and a generation in that run
\* builds no prompt.
C10_FailedUploadClearsAnswers ==
    FailedUpload =>
        /\ uploaded_csv_answers = PyNone
        /\ gen_called => final_prompts_generated_data = << >>

\* the 'Answers' column of the file f, as the list the program stores
AnswersColumn(f) == PyL([ i \in 1..Len(f.answers) |-> PyS(f.answers[i]) ])

\* C11 (as claimed): the answer list a generation in CSV mode is given is the
\* 'Answers' column of the file that is in the uploader at that time, never the
\* list read from an earlier, different file.
C11_AnswersAreOfCurrentFile ==
    ( /\ gen_called
      /\ answer_input_method = UPLOAD_CSV
      /\ uploader # NoFile
      /\ uploader.kind = "ok" )
    => answers_payload = AnswersColumn(uploader)

\* C13: at the end of every run of run_ui the two answer sources exclude each
\* other: single_answer is not non-empty while uploaded_csv_answers is not None;
\* with the text box selected uploaded_csv_answers and last_uploaded_filename
\* are None, with the CSV upload selected single_answer is empty.
C13_AnswerSourcesExclusive ==
    /\ ~(single_answer # "" /\ uploaded_csv_answers # PyNone)
    /\ answer_input_method = answer_options[1] =>
           /\ uploaded_csv_answers = PyNone
           /\ last_uploaded_filename = PyNone
    /\ answer_input_method = answer_options[2] => single_answer = ""

\* C13 happens: a session that went over to the CSV upload holds the answers
\* of a file and an empty single_answer, and has generated from them.
C13_Witness ==
    /\ answer_input_method = answer_options[2]
    /\ uploaded_csv_answers = PyL(<< PyS("A1"), PyS("A2") >>)
    /\ last_uploaded_filename = PyS("a.csv")
    /\ single_answer = ""
    /\ gen_called
    /\ Len(final_prompts_generated_data) = 2

====
